---- MODULE Spec2Model ----
(***************************************************************************)
(* Model of the resume chatbot in src/app.py: the setup pipeline           *)
(* (extract_text, get_chunks, get_vectorstore, get_conversation_chain),    *)
(* the Streamlit script run (setup() then run_UI()) and generate_response. *)
(*                                                                         *)
(* A Python str is a sequence of one-character strings, so that len,       *)
(* split, strip and join are computed and not assumed.  Questions and      *)
(* answers are opaque TLA+ strings; "" is the empty (falsy) question.      *)
(***************************************************************************)
EXTENDS Integers, Sequences, FiniteSets, TLC

VARIABLES
    pc,             \* the statement the script is at; "idle" between calls
    user_question,  \* run_UI: value of st.text_input for this run
    files,          \* contents of the PDF files named by pdf_files
    drop_empty,     \* installed splitter drops empty splits (unpinned library)
    raw_text,       \* setup local
    chunks,         \* setup local
    vector_store,   \* setup local
    conversations,  \* st.session_state.conversations: Absent, None or a chain id
    chat_history,   \* st.session_state.chat_history: Absent, None or a list id
    heap,           \* live chain objects: id -> [memory, retriever]
    page,           \* what st.write has put on the page in this run
    raised,         \* the exception that ended the last call, or "none"
    calls,          \* the functions entered in this run, in order
    runs            \* script runs (or asks) started so far

vars == <<pc, user_question, files, drop_empty, raw_text, chunks, vector_store,
          conversations, chat_history, heap, page, raised, calls, runs>>

-----------------------------------------------------------------------------
(* Bounds of the model                                                     *)

MaxRuns == 3
MaxAsks == 3
MaxDocs == 2
MaxPages == 2
MaxPieces == 4

(* Program constants                                                       *)

chunk_size == 1000
chunk_overlap == 200

separator == <<"\n">>

-----------------------------------------------------------------------------
(* Values                                                                  *)

\* a session-state slot: the key is absent, holds None, or refers to an object
Absent == [kind |-> "absent", id |-> 0]
None == [kind |-> "none", id |-> 0]
Ref(n) == [kind |-> "ref", id |-> n]

\* a local variable: Unset before its assignment and after its frame is gone
Unset == <<>>
Bound(v) == <<v>>

Questions == {"q1", "q2"}
Answers == {"a1", "a2"}

Whitespace == {" ", "\n"}

Rep(c, n) == [i \in 1..n |-> c]

RECURSIVE SeqsUpTo(_, _)
SeqsUpTo(S, n) ==
    IF n = 0 THEN {<<>>}
    ELSE LET shorter == SeqsUpTo(S, n - 1)
         IN  shorter \cup {Append(s, x) : s \in {t \in shorter : Len(t) = n - 1}, x \in S}

-----------------------------------------------------------------------------
(* extract_text                                                            *)

PageTexts == {<<>>, <<"a">>, <<"b", "\n">>}

Unreadable == [readable |-> FALSE, pages |-> <<>>]

Docs ==
    {[readable |-> TRUE, pages |-> p] : p \in SeqsUpTo(PageTexts, MaxPages)}
        \cup {Unreadable}

\* faulty variant: a newline is put after every page
RECURSIVE extract_pages_newline(_, _, _)
extract_pages_newline(pages, j, text) ==
    IF j > Len(pages) THEN text
    ELSE extract_pages_newline(pages, j + 1, text \o pages[j] \o <<"\n">>)

\* for page in pdf_reader.pages: text += page.extract_text()
RECURSIVE extract_pages(_, _, _)
extract_pages(pages, j, text) ==
    IF j > Len(pages) THEN text
    ELSE extract_pages(pages, j + 1, text \o pages[j])

\* faulty variant: a file that cannot be parsed is skipped and the rest kept
RECURSIVE extract_docs_skip_unreadable(_, _, _)
extract_docs_skip_unreadable(pdf_files, i, text) ==
    IF i > Len(pdf_files) THEN [raised |-> "none", text |-> text]
    ELSE IF ~pdf_files[i].readable THEN extract_docs_skip_unreadable(pdf_files, i + 1, text)
    ELSE extract_docs_skip_unreadable(pdf_files, i + 1,
                                      extract_pages(pdf_files[i].pages, 1, text))

\* for pdf_file in pdf_files: PdfReader(pdf_file) raises on a file it cannot parse
RECURSIVE extract_docs(_, _, _)
extract_docs(pdf_files, i, text) ==
    IF i > Len(pdf_files) THEN [raised |-> "none", text |-> text]
    ELSE IF ~pdf_files[i].readable THEN [raised |-> "PdfReadError", text |-> <<>>]
    ELSE extract_docs(pdf_files, i + 1, extract_pages(pdf_files[i].pages, 1, text))

extract_text(pdf_files) == extract_docs(pdf_files, 1, <<>>)

-----------------------------------------------------------------------------
(* get_chunks: CharacterTextSplitter(separator="\n", chunk_size=1000,      *)
(* chunk_overlap=200, length_function=len).split_text(text)                *)

length_function(s) == Len(s)

\* str.split(sep): the pieces between the occurrences of sep, empty ones kept
RECURSIVE split_from(_, _)
split_from(text, start) ==
    LET seps == {i \in start..Len(text) : text[i] = separator[1]}
    IN  IF seps = {} THEN <<SubSeq(text, start, Len(text))>>
        ELSE LET p == CHOOSE i \in seps : \A k \in seps : i <= k
             IN  <<SubSeq(text, start, p - 1)>> \o split_from(text, p + 1)

NonEmpty(s) == s # <<>>

\* the splits handed to _merge_splits; newer releases of the splitter filter
\* out the empty ones, older ones keep them
splits_of(text, dropEmpty) ==
    IF dropEmpty THEN SelectSeq(split_from(text, 1), NonEmpty)
    ELSE split_from(text, 1)

\* str.strip()
strip(text) ==
    LET n == Len(text)
    IN  IF \A i \in 1..n : text[i] \in Whitespace THEN <<>>
        ELSE LET first == CHOOSE i \in 1..n :
                              text[i] \notin Whitespace
                              /\ \A k \in 1..(i - 1) : text[k] \in Whitespace
                 last == CHOOSE i \in 1..n :
                              text[i] \notin Whitespace
                              /\ \A k \in (i + 1)..n : text[k] \in Whitespace
             IN  SubSeq(text, first, last)

\* separator.join(docs)
RECURSIVE join(_, _)
join(docs, sep) ==
    IF docs = <<>> THEN <<>>
    ELSE IF Len(docs) = 1 THEN docs[1]
    ELSE docs[1] \o sep \o join(Tail(docs), sep)

\* faulty variant: the joined text is kept as it is, whitespace included
join_docs_unstripped(docs, sep) ==
    LET text == join(docs, sep)
    IN  IF text = <<>> THEN <<>> ELSE <<text>>

\* _join_docs: the joined and stripped text, or None when nothing is left
join_docs(docs, sep) ==
    LET text == strip(join(docs, sep))
    IN  IF text = <<>> THEN <<>> ELSE <<text>>

SepLen(current_doc, least) ==
    IF Len(current_doc) > least THEN length_function(separator) ELSE 0

\* the while loop of _merge_splits that pops the head of current_doc
RECURSIVE pop_overlap(_, _, _)
pop_overlap(current_doc, total, len_d) ==
    IF total > chunk_overlap
       \/ (total + len_d + SepLen(current_doc, 0) > chunk_size /\ total > 0)
    THEN pop_overlap(Tail(current_doc),
                     total - (length_function(current_doc[1]) + SepLen(current_doc, 1)),
                     len_d)
    ELSE [current_doc |-> current_doc, total |-> total]

\* the for loop of _merge_splits over the splits, then the final _join_docs
RECURSIVE merge_splits(_, _, _, _, _)
merge_splits(splits, i, docs, current_doc, total) ==
    IF i > Len(splits) THEN docs \o join_docs(current_doc, separator)
    ELSE LET d == splits[i]
             len_d == length_function(d)
             over == total + len_d + SepLen(current_doc, 0) > chunk_size
             flush == over /\ Len(current_doc) > 0
             docs1 == IF flush THEN docs \o join_docs(current_doc, separator) ELSE docs
             kept == IF flush THEN pop_overlap(current_doc, total, len_d)
                     ELSE [current_doc |-> current_doc, total |-> total]
             doc2 == Append(kept.current_doc, d)
         IN  merge_splits(splits, i + 1, docs1, doc2,
                          kept.total + len_d + SepLen(doc2, 1))

split_text(text, dropEmpty) == merge_splits(splits_of(text, dropEmpty), 1, <<>>, <<>>, 0)

get_chunks(text, dropEmpty) == split_text(text, dropEmpty)

-----------------------------------------------------------------------------
(* get_vectorstore, get_conversation_chain and the chain's memory          *)

\* FAISS.from_texts(texts=chunks, ...): the index over all the chunks
get_vectorstore(chunks_) == [texts |-> chunks_]

\* ConversationBufferMemory starts empty; the retriever wraps the index
get_conversation_chain(vector_store_) == [memory |-> <<>>, retriever |-> vector_store_]

HumanMessage(content) == [type |-> "human", content |-> content]
AIMessage(content) == [type |-> "ai", content |-> content]

\* faulty variant: the answer is stored before the question
save_context_answer_first(memory, question, answer) ==
    memory \o <<AIMessage(answer), HumanMessage(question)>>

\* faulty variant: only the question is stored
save_context_question_only(memory, question, answer) ==
    memory \o <<HumanMessage(question)>>

\* the chain's memory.save_context after the model answered: the question as
\* a HumanMessage, then the answer as an AIMessage, appended in place
save_context(memory, question, answer) ==
    memory \o <<HumanMessage(question), AIMessage(answer)>>

\* faulty variant: the templates are picked the other way round
template_for_swapped(i) == IF i % 2 = 0 THEN "bot_template" ELSE "user_template"

\* the template the loop of generate_response picks for enumerate index i
template_for(i) == IF i % 2 = 0 THEN "user_template" ELSE "bot_template"

\* for i, message in enumerate(chat_history): st.write(template.replace(...))
write_history(history) ==
    [k \in 1..Len(history) |->
        [template |-> template_for(k - 1), MSG |-> history[k].content]]

NoObjects == [i \in {} |-> get_conversation_chain(get_vectorstore(<<>>))]

\* the objects still referenced from the session state
Live(h, slots) == [i \in {s.id : s \in {t \in slots : t.kind = "ref"}} |-> h[i]]

\* the messages a chat_history slot refers to
History(slot) == IF slot.kind = "ref" THEN heap[slot.id].memory ELSE <<>>

-----------------------------------------------------------------------------
(* The script run: setup() then run_UI()                                   *)

\* what the two files of pdf_files may hold: each parses or does not
PdfFileContents == {<<d1, d2>> : d1 \in {Unreadable, [readable |-> TRUE, pages |-> <<<<"a">>, <<"b", "\n">>>>]},
                                 d2 \in {Unreadable, [readable |-> TRUE, pages |-> <<<<"b", "\n">>>>]}}

Init ==
    /\ pc = "idle"
    /\ user_question = ""
    /\ files \in PdfFileContents
    /\ drop_empty \in BOOLEAN
    /\ raw_text = Unset
    /\ chunks = Unset
    /\ vector_store = Unset
    /\ conversations = Absent
    /\ chat_history = Absent
    /\ heap = NoObjects
    /\ page = <<>>
    /\ raised = "none"
    /\ calls = <<>>
    /\ runs = 0

\* Streamlit runs the script top to bottom on the first load and again each
\* time the text input is submitted
script_run(question) ==
    /\ pc = "idle"
    /\ runs < MaxRuns
    /\ pc' = "extract_text"
    /\ user_question' = question
    /\ page' = <<>>
    /\ raised' = "none"
    /\ calls' = <<"setup">>
    /\ runs' = runs + 1
    /\ UNCHANGED <<files, drop_empty, raw_text, chunks, vector_store,
                   conversations, chat_history, heap>>

\* raw_text = extract_text(pdf_files)
setup_extract_text ==
    /\ pc = "extract_text"
    /\ calls' = Append(calls, "extract_text")
    /\ LET r == extract_text(files)
       IN  IF r.raised = "none"
           THEN /\ raw_text' = Bound(r.text)
                /\ pc' = "get_chunks"
                /\ raised' = raised
           ELSE /\ raw_text' = Unset
                /\ pc' = "idle"
                /\ raised' = r.raised
    /\ UNCHANGED <<user_question, files, drop_empty, chunks, vector_store,
                   conversations, chat_history, heap, page, runs>>

\* chunks = get_chunks(raw_text)
setup_get_chunks ==
    /\ pc = "get_chunks"
    /\ calls' = Append(calls, "get_chunks")
    /\ chunks' = Bound(get_chunks(raw_text[1], drop_empty))
    /\ pc' = "get_vectorstore"
    /\ UNCHANGED <<user_question, files, drop_empty, raw_text, vector_store,
                   conversations, chat_history, heap, page, raised, runs>>

\* vector_store = get_vectorstore(chunks); the embedding provider may fail
\* (rate limit, credentials, network, or nothing to embed), whatever the chunks
setup_get_vectorstore ==
    /\ pc = "get_vectorstore"
    /\ calls' = Append(calls, "get_vectorstore")
    /\ \E ok \in BOOLEAN :
        IF ok
        THEN /\ vector_store' = Bound(get_vectorstore(chunks[1]))
             /\ pc' = "get_conversation_chain"
             /\ UNCHANGED <<raw_text, chunks, raised>>
        ELSE /\ vector_store' = Unset
             /\ raw_text' = Unset
             /\ chunks' = Unset
             /\ pc' = "idle"
             /\ raised' = "EmbeddingError"
    /\ UNCHANGED <<user_question, files, drop_empty,
                   conversations, chat_history, heap, page, runs>>

\* st.session_state.conversations = get_conversation_chain(vector_store)
setup_get_conversation_chain ==
    /\ pc = "get_conversation_chain"
    /\ calls' = Append(calls, "get_conversation_chain")
    /\ conversations' = Ref(runs)
    /\ heap' = Live([i \in DOMAIN heap \cup {runs} |->
                        IF i = runs THEN get_conversation_chain(vector_store[1])
                        ELSE heap[i]],
                    {conversations', chat_history})
    /\ raw_text' = Unset
    /\ chunks' = Unset
    /\ vector_store' = Unset
    /\ pc' = "run_UI"
    /\ UNCHANGED <<user_question, files, drop_empty, chat_history, page, raised, runs>>

\* faulty variant: the session-state slots are reset on every run
run_UI_reset ==
    /\ pc = "run_UI"
    /\ calls' = Append(calls, "run_UI")
    /\ conversations' = None
    /\ chat_history' = None
    /\ pc' = IF user_question # "" THEN "generate_response" ELSE "idle"
    /\ UNCHANGED <<user_question, files, drop_empty, raw_text, chunks, vector_store,
                   heap, page, raised, runs>>

\* run_UI up to the call of generate_response
run_UI ==
    /\ pc = "run_UI"
    /\ calls' = Append(calls, "run_UI")
    /\ conversations' = IF conversations = Absent THEN None ELSE conversations
    /\ chat_history' = IF chat_history = Absent THEN None ELSE chat_history
    /\ pc' = IF user_question # "" THEN "generate_response" ELSE "idle"
    /\ UNCHANGED <<user_question, files, drop_empty, raw_text, chunks, vector_store,
                   heap, page, raised, runs>>

\* faulty variant: the question is saved before the chain call, so a failing
\* call leaves a user turn without its answer
generate_response_partial_turn ==
    /\ pc = "generate_response"
    /\ calls' = Append(calls, "generate_response")
    /\ pc' = "idle"
    /\ IF conversations.kind # "ref"
       THEN /\ raised' = "TypeError"
            /\ UNCHANGED <<chat_history, heap, page>>
       ELSE \E answered \in BOOLEAN, answer \in Answers :
            LET id == conversations.id
                asked == heap[id].memory \o <<HumanMessage(user_question)>>
                memory == asked \o <<AIMessage(answer)>>
            IN  IF answered
                THEN /\ heap' = Live([heap EXCEPT ![id].memory = memory], {conversations})
                     /\ chat_history' = Ref(id)
                     /\ page' = page \o write_history(memory)
                     /\ raised' = raised
                ELSE /\ heap' = [heap EXCEPT ![id].memory = asked]
                     /\ raised' = "ChatError"
                     /\ UNCHANGED <<chat_history, page>>
    /\ UNCHANGED <<user_question, files, drop_empty, raw_text, chunks, vector_store,
                   conversations, runs>>

\* generate_response(user_question): the chain call either returns an answer
\* and has saved the turn, or raises before anything is saved.  The
\* chat_history of the response is the memory's own list, so the slot refers
\* to the chain's messages, the new turn included.
generate_response ==
    /\ pc = "generate_response"
    /\ calls' = Append(calls, "generate_response")
    /\ pc' = "idle"
    /\ IF conversations.kind # "ref"
       THEN /\ raised' = "TypeError"
            /\ UNCHANGED <<chat_history, heap, page>>
       ELSE \E answered \in BOOLEAN, answer \in Answers :
            IF answered
            THEN LET id == conversations.id
                     memory == save_context(heap[id].memory, user_question, answer)
                 IN  /\ heap' = Live([heap EXCEPT ![id].memory = memory], {conversations})
                     /\ chat_history' = Ref(id)
                     /\ page' = page \o write_history(memory)
                     /\ raised' = raised
            ELSE /\ raised' = "ChatError"
                 /\ UNCHANGED <<chat_history, heap, page>>
    /\ UNCHANGED <<user_question, files, drop_empty, raw_text, chunks, vector_store,
                   conversations, runs>>

Next ==
    \/ \E question \in Questions \cup {""} : script_run(question)
    \/ setup_extract_text
    \/ setup_get_chunks
    \/ setup_get_vectorstore
    \/ setup_get_conversation_chain
    \/ run_UI
    \/ generate_response

Spec == Init /\ [][Next]_vars

-----------------------------------------------------------------------------
(* The conversation engine on its own: one chain, asked again and again    *)

InitEngine ==
    /\ pc = "idle"
    /\ user_question = ""
    /\ files \in {f \in PdfFileContents : extract_text(f).raised = "none"}
    /\ drop_empty \in BOOLEAN
    /\ raw_text = Unset
    /\ chunks = Unset
    /\ vector_store = Unset
    /\ conversations = Ref(1)
    /\ chat_history = None
    /\ heap = [i \in {1} |->
                get_conversation_chain(
                    get_vectorstore(get_chunks(extract_text(files).text, drop_empty)))]
    /\ page = <<>>
    /\ raised = "none"
    /\ calls = <<>>
    /\ runs = 0

\* if user_question: generate_response(user_question), on the same chain
ask(question) ==
    /\ pc = "idle"
    /\ runs < MaxAsks
    /\ question # ""
    /\ pc' = "generate_response"
    /\ user_question' = question
    /\ page' = <<>>
    /\ raised' = "none"
    /\ calls' = <<>>
    /\ runs' = runs + 1
    /\ UNCHANGED <<files, drop_empty, raw_text, chunks, vector_store,
                   conversations, chat_history, heap>>

NextEngine ==
    \/ \E question \in Questions : ask(question)
    \/ generate_response

SpecEngine == InitEngine /\ [][NextEngine]_vars

-----------------------------------------------------------------------------
(* extract_text on its own, over every list of documents within the bounds *)

InitExtract ==
    /\ pc = "extract_text"
    /\ user_question = ""
    /\ files \in SeqsUpTo(Docs, MaxDocs)
    /\ drop_empty = FALSE
    /\ raw_text = Unset
    /\ chunks = Unset
    /\ vector_store = Unset
    /\ conversations = Absent
    /\ chat_history = Absent
    /\ heap = NoObjects
    /\ page = <<>>
    /\ raised = "none"
    /\ calls = <<"setup">>
    /\ runs = 1

NextExtract == setup_extract_text

SpecExtract == InitExtract /\ [][NextExtract]_vars

-----------------------------------------------------------------------------
(* get_chunks on its own, over texts built from short and long pieces      *)

Pieces == {<<"a">>, <<" ">>, <<"\n">>, Rep("a", chunk_size - 2), Rep("a", chunk_size + 1)}

RECURSIVE Flat(_)
Flat(ss) == IF ss = <<>> THEN <<>> ELSE Head(ss) \o Flat(Tail(ss))

Texts == {Flat(ps) : ps \in SeqsUpTo(Pieces, MaxPieces)}

InitChunks ==
    /\ pc = "get_chunks"
    /\ user_question = ""
    /\ files \in {f \in PdfFileContents : extract_text(f).raised = "none"}
    /\ drop_empty \in BOOLEAN
    /\ raw_text \in {Bound(t) : t \in Texts}
    /\ chunks = Unset
    /\ vector_store = Unset
    /\ conversations = Absent
    /\ chat_history = Absent
    /\ heap = NoObjects
    /\ page = <<>>
    /\ raised = "none"
    /\ calls = <<"setup", "extract_text">>
    /\ runs = 1

NextChunks == setup_get_chunks

SpecChunks == InitChunks /\ [][NextChunks]_vars

-----------------------------------------------------------------------------
(* Properties                                                              *)

\* the chain st.session_state.conversations refers to
Memory == History(conversations)

\* a step in which the chain call of generate_response returned
AskReturned == pc = "generate_response" /\ raised' = "none"

\* a step in which the chain call of generate_response raised
AskRaised == pc = "generate_response" /\ raised' # "none"

\* h is h0 followed by the question as a user turn and an answer as an
\* assistant turn
IsTurnAfter(h, h0, question) ==
    /\ Len(h) = Len(h0) + 2
    /\ SubSeq(h, 1, Len(h0)) = h0
    /\ h[Len(h0) + 1] = [type |-> "human", content |-> question]
    /\ h[Len(h0) + 2].type = "ai"
    /\ h[Len(h0) + 2].content \in Answers

\* C1: a successful ask leaves the stored history (the chain's memory and
\* st.session_state.chat_history) equal to the prior history h followed by
\* exactly two entries, the question as a user turn and then the answer as
\* an assistant turn, so the length grows by exactly 2.
C1_AskAppendsOneTurn ==
    [][AskReturned =>
        /\ IsTurnAfter(Memory', Memory, user_question)
        /\ History(chat_history)' = Memory'
        /\ page'[Len(page')].MSG = Memory'[Len(Memory')].content]_vars

C1_Witness ==
    /\ pc = "idle"
    /\ raised = "none"
    /\ Len(History(chat_history)) = 4
    /\ History(chat_history)[3].content = "q2"

C3_ChainCreatedOnce ==
    [][conversations.kind = "ref" =>
        /\ conversations' = conversations
        /\ Len(Memory') >= Len(Memory)
        /\ SubSeq(Memory', 1, Len(Memory)) = Memory]_vars

\* user, assistant, user, assistant, ... and of even length
Alternates(h) ==
    /\ Len(h) % 2 = 0
    /\ \A k \in 1..Len(h) : h[k].type = IF k % 2 = 1 THEN "human" ELSE "ai"

\* C4: in every reachable state the stored history is unset, empty, or of
\* even length with roles alternating user, assistant, starting with user.
C4_HistoryAlternates ==
    /\ chat_history.kind \in {"absent", "none", "ref"}
    /\ chat_history.kind = "ref" => chat_history.id \in DOMAIN heap
    /\ Alternates(History(chat_history))
    /\ \A id \in DOMAIN heap : Alternates(heap[id].memory)

C4_Witness ==
    /\ pc = "idle"
    /\ raised = "ChatError"
    /\ Len(History(chat_history)) = 2
    /\ Memory = <<>>

\* every page of every document, documents in input order and pages in page
\* order
RECURSIVE PagesOf(_)
PagesOf(docs) ==
    IF docs = <<>> THEN <<>> ELSE Head(docs).pages \o PagesOf(Tail(docs))

RECURSIVE TotalLen(_, _)
TotalLen(ps, n) == IF n = 0 THEN 0 ELSE TotalLen(ps, n - 1) + Len(ps[n])

\* text holds page k of ps at the offset of the pages before it, and nothing
\* else
IsConcatenation(text, ps) ==
    /\ Len(text) = TotalLen(ps, Len(ps))
    /\ \A k \in 1..Len(ps) :
        SubSeq(text, TotalLen(ps, k - 1) + 1, TotalLen(ps, k)) = ps[k]

\* C5: extract_text returns the concatenation of the text of every page,
\* documents in input order and pages in page order, with nothing inserted
\* between them; for no documents it returns the empty string.
C5_ExtractConcatenates ==
    pc = "get_chunks" =>
        /\ raw_text # Unset
        /\ IsConcatenation(raw_text[1], PagesOf(files))
        /\ files = <<>> => raw_text[1] = <<>>

C5_Witness ==
    /\ pc = "get_chunks"
    /\ Len(files) = 2
    /\ files[1].pages = <<<<"b", "\n">>, <<"a">>>>
    /\ files[2].pages = <<<<"a">>, <<"b", "\n">>>>
    /\ raw_text = Bound(<<"b", "\n", "a", "a", "b", "\n">>)

\* C6: when a document cannot be parsed or the embedding provider fails,
\* setup ends there with the error: the run stores no chain, keeps no raw
\* text, chunks or index, and runs none of the later stages.
C6_SetupAllOrNothing ==
    [][/\ (pc = "extract_text" /\ \E i \in 1..Len(files) : ~files[i].readable) =>
            raised' = "PdfReadError"
       /\ (pc \in {"extract_text", "get_vectorstore"} /\ raised' # "none") =>
            /\ pc' = "idle"
            /\ calls' = Append(calls, pc)
            /\ raw_text' = Unset
            /\ chunks' = Unset
            /\ vector_store' = Unset
            /\ UNCHANGED <<conversations, chat_history, heap>>
       /\ conversations' # conversations =>
            pc \in {"get_conversation_chain", "run_UI"}]_vars

C6_Witness ==
    /\ pc = "idle"
    /\ raised = "EmbeddingError"
    /\ runs = 2
    /\ calls = <<"setup", "extract_text", "get_chunks", "get_vectorstore">>
    /\ conversations = Ref(1)

\* C7: every chunk get_chunks returns has length <= chunk_size, also for a
\* text holding a single line longer than chunk_size.
C7_ChunksWithinSize ==
    pc = "get_vectorstore" =>
        \A k \in 1..Len(chunks[1]) : Len(chunks[1][k]) <= chunk_size

\* C8 as stated: a text of length <= chunk_size comes back as exactly one
\* chunk equal to the text, character for character.
C8_ShortTextIsItsOwnChunk ==
    (pc = "get_vectorstore" /\ Len(raw_text[1]) <= chunk_size) =>
        chunks[1] = <<raw_text[1]>>

Blank(text) == \A i \in 1..Len(text) : text[i] \in Whitespace

\* c is text without its leading and trailing whitespace
IsStripped(c, text) ==
    /\ c # <<>>
    /\ c[1] \notin Whitespace
    /\ c[Len(c)] \notin Whitespace
    /\ \E lead \in 0..(Len(text) - Len(c)) :
        /\ \A i \in 1..lead : text[i] \in Whitespace
        /\ \A i \in (lead + Len(c) + 1)..Len(text) : text[i] \in Whitespace
        /\ SubSeq(text, lead + 1, lead + Len(c)) = c

HasEmptyLine(c) == \E i \in 1..(Len(c) - 1) : c[i] = "\n" /\ c[i + 1] = "\n"

\* C8 amended: a text of length <= chunk_size gives no chunk when it is empty
\* or all whitespace, and otherwise exactly one chunk without leading or
\* trailing whitespace: the text with its leading and trailing whitespace
\* removed (only when the splitter drops empty splits and the text has an
\* empty line inside is the chunk shorter than that).  So the chunk equals the
\* text when the text neither starts nor ends with whitespace and has no
\* empty line.
C8_ShortTextIsStripped ==
    (pc = "get_vectorstore" /\ Len(raw_text[1]) <= chunk_size) =>
        LET text == raw_text[1]
            out == chunks[1]
        IN  /\ Blank(text) => out = <<>>
            /\ ~Blank(text) =>
                /\ Len(out) = 1
                /\ out[1][1] \notin Whitespace
                /\ out[1][Len(out[1])] \notin Whitespace
                /\ (~drop_empty \/ ~HasEmptyLine(text)) => IsStripped(out[1], text)
                /\ (text[1] \notin Whitespace /\ text[Len(text)] \notin Whitespace
                        /\ ~HasEmptyLine(text)) => out[1] = text

C8_Witness ==
    /\ pc = "get_vectorstore"
    /\ Len(raw_text[1]) = chunk_size
    /\ raw_text[1][1] = " "
    /\ raw_text[1][chunk_size] = "\n"
    /\ Len(chunks[1]) = 1
    /\ Len(chunks[1][1]) = chunk_size - 2

\* the chain was built by the whole pipeline, in order, from the files
BuiltByPipeline ==
    /\ conversations.kind = "ref"
    /\ conversations.id \in DOMAIN heap
    /\ extract_text(files).raised = "none"
    /\ heap[conversations.id].retriever =
            get_vectorstore(get_chunks(extract_text(files).text, drop_empty))
    /\ calls = <<"setup", "extract_text", "get_chunks", "get_vectorstore",
                 "get_conversation_chain", "run_UI">>

\* C9: whenever generate_response is entered, st.session_state.conversations
\* holds a chain built by the completed pipeline and the question is not
\* empty; run_UI's initialisation fills a slot with None only when the key is
\* absent and never overwrites a chain.
C9_AskOnlyOnBuiltChain ==
    /\ [](pc = "generate_response" => (BuiltByPipeline /\ user_question # ""))
    /\ [][pc = "run_UI" =>
            /\ conversations' = IF conversations = Absent THEN None ELSE conversations
            /\ chat_history' = IF chat_history = Absent THEN None ELSE chat_history
            /\ (pc' = "generate_response") = (user_question # "")]_vars

C9_Witness ==
    /\ pc = "generate_response"
    /\ runs = 2
    /\ conversations = Ref(2)
    /\ chat_history = Ref(1)

\* C10: after a successful ask the page holds every entry of the updated
\* history exactly once and in order, the user template at even index and
\* the bot template at odd index, and that choice agrees with the entry's
\* role.
C10_RenderFollowsRoles ==
    (pc = "idle" /\ raised = "none" /\ calls = <<"generate_response">>) =>
        LET h == History(chat_history)
        IN  /\ Len(page) = Len(h)
            /\ \A k \in 1..Len(h) :
                /\ page[k].MSG = h[k].content
                /\ page[k].template =
                        (IF (k - 1) % 2 = 0 THEN "user_template" ELSE "bot_template")
                /\ (page[k].template = "user_template") = (h[k].type = "human")
                /\ (page[k].template = "bot_template") = (h[k].type = "ai")

C10_Witness ==
    /\ pc = "idle"
    /\ raised = "none"
    /\ calls = <<"generate_response">>
    /\ Len(page) = 6
    /\ page[5] = [template |-> "user_template", MSG |-> "q1"]
    /\ page[6] = [template |-> "bot_template", MSG |-> "a2"]

====
